---- MODULE Spec2Model ----
(***************************************************************************)
(* Wake-on-LAN magic packet library (package wakeonlan, pkg/magic).        *)
(*                                                                         *)
(* A Go string is modelled as a sequence of one-character strings, a byte  *)
(* slice as a sequence of integers in 0..255.  The standard library calls  *)
(* the package makes (net.ParseMAC, net.ParseIP, strconv.Atoi,             *)
(* net.DialUDP, UDPConn.Write) are modelled by the algorithm of the Go     *)
(* library at the place of the call.                                       *)
(*                                                                         *)
(* The package is modelled as pkg/magic/magic.go has it in lines 1-257;    *)
(* the text after line 258 of that file is an earlier version of the same  *)
(* package (errors printed and ignored), which the tests do not fit.       *)
(***************************************************************************)
EXTENDS Integers, Sequences, FiniteSets, TLC

VARIABLES
    pc,         \* position of the caller: "idle" or the next step of SendMagic / SendUDP
    owner,      \* who built the Packet in `payload`: "none", "SendMagic" or "user"
    args,       \* arguments of the operation in progress (macAddr, passwd, ip, port)
    payload,    \* Packet.payload: the bytes accumulated so far
    nwrites,    \* WriteMAC calls made on the user's Packet
    remoteIP,   \* SendUDP local: the resolved 16-byte net.IP (<<>> is nil)
    remotePort, \* SendUDP local: the resolved port
    conn,       \* the UDP socket of the SendUDP call: "none", "open" or "closed"
    sent,       \* datagrams handed to the socket by the operation in progress
    suErr,      \* SendUDP local: the error it is about to return
    ret         \* what the last exported operation returned

vars == <<pc, owner, args, payload, nwrites, remoteIP, remotePort, conn, sent, suErr, ret>>

(***************************************************************************)
(* Strings and characters.                                                 *)
(***************************************************************************)
Chars(s) == [i \in 1..Len(s) |-> SubSeq(s, i, i)]

Digits == Chars("0123456789")
LowerHex == Chars("0123456789abcdef")
UpperHex == Chars("0123456789ABCDEF")

IsDigit(c) == \E i \in 1..Len(Digits) : Digits[i] = c
DigitVal(c) == (CHOOSE i \in 1..Len(Digits) : Digits[i] = c) - 1
IsHex(c) == \E i \in 1..Len(LowerHex) : LowerHex[i] = c \/ UpperHex[i] = c
HexVal(c) == (CHOOSE i \in 1..Len(LowerHex) : LowerHex[i] = c \/ UpperHex[i] = c) - 1

\* s[from:] of Go, with from a 0-based offset
Drop(s, from) == SubSeq(s, from + 1, Len(s))
\* 0-based index of the first occurrence of c in s, or -1
IndexByte(s, c) ==
    IF \E i \in 1..Len(s) : s[i] = c
    THEN (CHOOSE i \in 1..Len(s) : s[i] = c /\ \A j \in 1..(i - 1) : s[j] # c) - 1
    ELSE -1

RECURSIVE Repeat(_, _)
Repeat(b, n) == IF n = 0 THEN <<>> ELSE b \o Repeat(b, n - 1)

(***************************************************************************)
(* Errors.  An error value keeps its kind, the input it quotes and the     *)
(* chain of contexts fmt.Errorf("...: %w") wrapped around it.              *)
(***************************************************************************)
NilErr == [kind |-> "nil", input |-> <<>>, wraps |-> <<>>]
Err(kind, input) == [kind |-> kind, input |-> input, wraps |-> <<>>]
Wrap(ctx, e) == [e EXCEPT !.wraps = <<ctx>> \o @]

(***************************************************************************)
(* net.ParseMAC, as called by WriteMAC.                                    *)
(***************************************************************************)
RECURSIVE xtoiLoop(_, _, _)
\* xtoi: hexadecimal to integer; returns the number, the characters
\* consumed and success (at least one hexadecimal digit)
xtoiLoop(s, i, n) ==
    IF i < Len(s) /\ IsHex(s[i + 1])
    THEN xtoiLoop(s, i + 1, n * 16 + HexVal(s[i + 1]))
    ELSE [n |-> n, i |-> i, ok |-> i # 0]
xtoi(s) == xtoiLoop(s, 0, 0)

\* xtoi2: two hexadecimal digits, followed by the byte e when more text follows
xtoi2(s, e) ==
    IF Len(s) > 2 /\ s[3] # e
    THEN [b |-> 0, ok |-> FALSE]
    ELSE LET r == xtoi(SubSeq(s, 1, 2))
         IN  [b |-> r.n % 256, ok |-> r.ok /\ r.i = 2]

MACLengths == {6, 8, 20}
NoMAC == [hw |-> <<>>, ok |-> FALSE]

ParseMACSep(s) ==
    IF (Len(s) + 1) % 3 # 0 THEN NoMAC
    ELSE LET n == (Len(s) + 1) \div 3
             oct(i) == xtoi2(Drop(s, 3 * i), s[3])
         IN  IF n \notin MACLengths THEN NoMAC
             ELSE IF \E i \in 0..(n - 1) : ~oct(i).ok THEN NoMAC
             ELSE [hw |-> [i \in 1..n |-> oct(i - 1).b], ok |-> TRUE]

ParseMACDot(s) ==
    IF (Len(s) + 1) % 5 # 0 THEN NoMAC
    ELSE LET n == (2 * (Len(s) + 1)) \div 5
             hi(g) == xtoi2(SubSeq(s, 5 * g + 1, 5 * g + 2), "NUL")
             lo(g) == xtoi2(Drop(s, 5 * g + 2), s[5])
         IN  IF n \notin MACLengths THEN NoMAC
             ELSE IF \E g \in 0..((n \div 2) - 1) : ~hi(g).ok \/ ~lo(g).ok THEN NoMAC
             ELSE [hw |-> [i \in 1..n |-> IF i % 2 = 1 THEN hi((i - 1) \div 2).b
                                                        ELSE lo((i - 1) \div 2).b],
                   ok |-> TRUE]

ParseMAC(s) ==
    IF Len(s) < 14 THEN NoMAC
    ELSE IF s[3] = ":" \/ s[3] = "-" THEN ParseMACSep(s)
    ELSE IF s[5] = "." THEN ParseMACDot(s)
    ELSE NoMAC

(***************************************************************************)
(* net.ParseIP, as called by getRAddr, and the net.IP helpers.             *)
(***************************************************************************)
v4InV6Prefix == <<0, 0, 0, 0, 0, 0, 0, 0, 0, 0, 255, 255>>
IPv4(a, b, c, d) == v4InV6Prefix \o <<a, b, c, d>>
\* IP.To4: the 4-byte form of an IPv4 address, <<>> (nil) otherwise
To4(ip) ==
    IF Len(ip) = 4 THEN ip
    ELSE IF Len(ip) = 16 /\ SubSeq(ip, 1, 12) = v4InV6Prefix THEN SubSeq(ip, 13, 16)
    ELSE <<>>

NoIP == [ip |-> <<>>, ok |-> FALSE]

RECURSIVE parseIPv4Loop(_, _, _, _, _, _)
parseIPv4Loop(s, i, val, pos, digLen, fields) ==
    IF i = Len(s)
    THEN IF pos < 3 THEN NoIP ELSE [ip |-> Append(fields, val), ok |-> TRUE]
    ELSE LET c == s[i + 1] IN
         IF IsDigit(c)
         THEN IF digLen = 1 /\ val = 0 THEN NoIP
              ELSE LET v == val * 10 + DigitVal(c)
                   IN  IF v > 255 THEN NoIP
                       ELSE parseIPv4Loop(s, i + 1, v, pos, digLen + 1, fields)
         ELSE IF c = "."
         THEN IF i = 0 \/ i = Len(s) - 1 \/ s[i] = "." THEN NoIP
              ELSE IF pos = 3 THEN NoIP
              ELSE parseIPv4Loop(s, i + 1, 0, pos + 1, 0, Append(fields, val))
         ELSE NoIP
\* the four octets of a dotted-quad text
parseIPv4(s) == parseIPv4Loop(s, 0, 0, 0, 0, <<>>)

RECURSIVE parseIPv6Loop(_, _, _)
\* s: the text left, ip: the bytes parsed so far, ellipsis: where "::" stood (-1: nowhere)
parseIPv6Loop(s, ip, ellipsis) ==
    LET i == Len(ip)
        finish(rest, bytes, ell) ==
            IF Len(rest) # 0 THEN NoIP
            ELSE IF Len(bytes) < 16
            THEN IF ell < 0 THEN NoIP
                 ELSE [ip |-> SubSeq(bytes, 1, ell) \o Repeat(<<0>>, 16 - Len(bytes))
                                \o SubSeq(bytes, ell + 1, Len(bytes)),
                       ok |-> TRUE]
            ELSE IF ell >= 0 THEN NoIP
            ELSE [ip |-> bytes, ok |-> TRUE]
    IN  IF i >= 16 THEN finish(s, ip, ellipsis)
        ELSE LET g == xtoi(s)
                 off == g.i
             IN  IF off > 4 THEN NoIP
                 ELSE IF off = 0 THEN NoIP
                 ELSE IF off < Len(s) /\ s[off + 1] = "."
                 THEN IF ellipsis < 0 /\ i # 12 THEN NoIP
                      ELSE IF i + 4 > 16 THEN NoIP
                      ELSE LET v4 == parseIPv4(s)
                           IN  IF ~v4.ok THEN NoIP
                               ELSE finish(<<>>, ip \o v4.ip, ellipsis)
                 ELSE LET ip2 == ip \o <<g.n \div 256, g.n % 256>>
                          s1 == Drop(s, off)
                      IN  IF Len(s1) = 0 THEN finish(s1, ip2, ellipsis)
                          ELSE IF s1[1] # ":" THEN NoIP
                          ELSE IF Len(s1) = 1 THEN NoIP
                          ELSE LET s2 == Drop(s1, 1)
                               IN  IF s2[1] = ":"
                                   THEN IF ellipsis >= 0 THEN NoIP
                                        ELSE IF Len(s2) = 1
                                        THEN finish(<<>>, ip2, Len(ip2))
                                        ELSE parseIPv6Loop(Drop(s2, 1), ip2, Len(ip2))
                                   ELSE parseIPv6Loop(s2, ip2, ellipsis)

\* netip.parseIPv6, with ParseIP's refusal of any zone
parseIPv6(in) ==
    IF IndexByte(in, "%") # -1 THEN NoIP
    ELSE IF Len(in) >= 2 /\ in[1] = ":" /\ in[2] = ":"
    THEN IF Len(in) = 2 THEN [ip |-> Repeat(<<0>>, 16), ok |-> TRUE]
         ELSE parseIPv6Loop(Drop(in, 2), <<>>, 0)
    ELSE parseIPv6Loop(in, <<>>, -1)

\* netip.ParseAddr's dispatch on the first of '.', ':' and '%'; the result in 16-byte form
ParseIP(s) ==
    LET marks == {i \in 1..Len(s) : s[i] \in {".", ":", "%"}}
    IN  IF marks = {} THEN NoIP
        ELSE LET m == CHOOSE i \in marks : \A j \in marks : i <= j
             IN  IF s[m] = "."
                 THEN LET r == parseIPv4(s)
                      IN  IF r.ok THEN [ip |-> v4InV6Prefix \o r.ip, ok |-> TRUE] ELSE NoIP
                 ELSE IF s[m] = ":" THEN parseIPv6(s)
                 ELSE NoIP

(***************************************************************************)
(* strconv.Atoi, as called by getPort: an optional sign and decimal        *)
(* digits.  (Range errors need 19 characters or more.)                     *)
(***************************************************************************)
RECURSIVE AtoiLoop(_, _, _)
AtoiLoop(s, i, n) ==
    IF i = Len(s) THEN [n |-> n, ok |-> TRUE]
    ELSE IF ~IsDigit(s[i + 1]) THEN [n |-> 0, ok |-> FALSE]
    ELSE AtoiLoop(s, i + 1, n * 10 + DigitVal(s[i + 1]))

Atoi(s0) ==
    IF Len(s0) = 0 THEN [n |-> 0, ok |-> FALSE]
    ELSE LET signed == s0[1] = "-" \/ s0[1] = "+"
             s == IF signed THEN Drop(s0, 1) ELSE s0
         IN  IF Len(s) < 1 THEN [n |-> 0, ok |-> FALSE]
             ELSE LET r == AtoiLoop(s, 0, 0)
                  IN  IF ~r.ok THEN r
                      ELSE IF s0[1] = "-" THEN [n |-> -r.n, ok |-> TRUE]
                      ELSE r

(***************************************************************************)
(* The package's functions.                                                *)
(***************************************************************************)
HeaderLen == 6
MACRepeat == 16
defaultPort == 9
acceptedPorts == {0, 7, 9}

\* Packet.writeHeader: six bytes of 0xFF appended to the payload
writeHeader(p) == p \o Repeat(<<255>>, HeaderLen)

\* WriteMAC with the repetition loop one short
WriteMAC_OneShort(p, addr) ==
    LET r == ParseMAC(addr)
    IN  IF ~r.ok
        THEN [payload |-> p, err |-> Err("invalid MAC address", addr)]
        ELSE [payload |-> p \o Repeat(r.hw, MACRepeat - 1), err |-> NilErr]

\* WriteMAC that appends sixteen zero addresses before it reports a bad text
WriteMAC_ZeroOnError(p, addr) ==
    LET r == ParseMAC(addr)
    IN  IF ~r.ok
        THEN [payload |-> p \o Repeat(<<0, 0, 0, 0, 0, 0>>, MACRepeat),
              err |-> Err("invalid MAC address", addr)]
        ELSE [payload |-> p \o Repeat(r.hw, MACRepeat), err |-> NilErr]

\* Packet.WriteMAC: the parsed hardware address appended sixteen times
WriteMAC(p, addr) ==
    LET r == ParseMAC(addr)
    IN  IF ~r.ok
        THEN [payload |-> p, err |-> Err("invalid MAC address", addr)]
        ELSE [payload |-> p \o Repeat(r.hw, MACRepeat), err |-> NilErr]

\* getRAddr without the empty-address default (the empty text goes to the parser)
getRAddr_NoDefault(addr) ==
    LET r == ParseIP(addr)
    IN  IF ~r.ok
        THEN [ip |-> <<>>, err |-> Err("invalid remote address", addr)]
        ELSE [ip |-> r.ip, err |-> NilErr]

\* getRAddr defaulting to a subnet-style broadcast address instead of the limited one
getRAddr_OtherDefault(addr) ==
    IF addr = <<>>
    THEN [ip |-> IPv4(255, 255, 255, 0), err |-> NilErr]
    ELSE LET r == ParseIP(addr)
         IN  IF ~r.ok
             THEN [ip |-> <<>>, err |-> Err("invalid remote address", addr)]
             ELSE [ip |-> r.ip, err |-> NilErr]

getRAddr(addr) ==
    IF addr = <<>>
    THEN [ip |-> IPv4(255, 255, 255, 255), err |-> NilErr]
    ELSE LET r == ParseIP(addr)
         IN  IF ~r.ok
             THEN [ip |-> <<>>, err |-> Err("invalid remote address", addr)]
             ELSE [ip |-> r.ip, err |-> NilErr]

\* getPort without the accepted-ports check: any UDP port number passes
getPort_AnyPort(port) ==
    IF port = <<>>
    THEN [port |-> defaultPort, err |-> NilErr]
    ELSE LET r == Atoi(port)
         IN  IF ~r.ok
             THEN [port |-> 0, err |-> Err("invalid port", port)]
             ELSE IF r.n \in 0..65535
             THEN [port |-> r.n, err |-> NilErr]
             ELSE [port |-> 0, err |-> Err("port not supported", port)]

getPort(port) ==
    IF port = <<>>
    THEN [port |-> defaultPort, err |-> NilErr]
    ELSE LET r == Atoi(port)
         IN  IF ~r.ok
             THEN [port |-> 0, err |-> Err("invalid port", port)]
             ELSE IF r.n \in acceptedPorts
             THEN [port |-> r.n, err |-> NilErr]
             ELSE [port |-> 0, err |-> Err("port not supported", port)]

\* net.DialUDP("udp4", nil, &raddr) can only succeed for an address with a 4-byte form
DialPossible(ip) == To4(ip) # <<>>

(***************************************************************************)
(* Inputs of the exported operations.                                      *)
(***************************************************************************)
MACInputs ==
    { Chars("00:11:22:33:44:55"), Chars("AA-BB-CC-DD-EE-FF"),
      Chars("00:11:22:33:44:55:66:77"), Chars("0011.2233.4455"),
      Chars("aabbccddeeff"), Chars("bad-mac"), Chars("") }
PasswdInputs == { Chars(""), Chars("secret") }
IPInputs ==
    { Chars(""), Chars("255.255.255.255"), Chars("192.168.1.255"),
      Chars("999.1.1.1"), Chars("wake.lan"), Chars("::1"),
      Chars("::ffff:192.168.1.255") }
PortInputs == { Chars(""), Chars("9"), Chars("7"), Chars("0"), Chars("80"), Chars("x") }

\* how many times a caller applies WriteMAC to one Packet of its own
MaxWrites == 2

Pending == Err("pending", <<>>)
NoArgs == [macAddr |-> <<>>, passwd |-> <<>>, ip |-> <<>>, port |-> <<>>]

Init ==
    /\ pc = "idle"
    /\ owner = "none"
    /\ args = NoArgs
    /\ payload = <<>>
    /\ nwrites = 0
    /\ remoteIP = <<>>
    /\ remotePort = 0
    /\ conn = "none"
    /\ sent = <<>>
    /\ suErr = NilErr
    /\ ret = Pending

\* the locals of a SendUDP call, before it runs
ResetSendUDP ==
    /\ remoteIP' = <<>>
    /\ remotePort' = 0
    /\ conn' = "none"
    /\ sent' = <<>>
    /\ suErr' = NilErr

(***************************************************************************)
(* SendMagic(macAddr, passwd, ip, port)                                    *)
(***************************************************************************)
\* SendMagic that only reports the password and goes on to SendUDP
SendMagic_Call_PasswdIgnored ==
    /\ pc = "idle"
    /\ \E m \in MACInputs, pw \in PasswdInputs, ip \in IPInputs, pt \in PortInputs :
          /\ args' = [macAddr |-> m, passwd |-> pw, ip |-> ip, port |-> pt]
          /\ pc' = IF pw = <<>> THEN "sm_hdr" ELSE "su_addr"
          /\ ret' = Pending
    /\ owner' = "SendMagic"
    /\ payload' = <<>>
    /\ nwrites' = 0
    /\ ResetSendUDP

\* entry: pk := new(Packet), and the branch on passwd
SendMagic_Call ==
    /\ pc = "idle"
    /\ \E m \in MACInputs, pw \in PasswdInputs, ip \in IPInputs, pt \in PortInputs :
          /\ args' = [macAddr |-> m, passwd |-> pw, ip |-> ip, port |-> pt]
          /\ IF pw = <<>>
             THEN /\ pc' = "sm_hdr"
                  /\ ret' = Pending
             ELSE /\ pc' = "idle"
                  /\ ret' = Err("password-protected Wake-on-LAN not supported yet", <<>>)
    /\ owner' = "SendMagic"
    /\ payload' = <<>>
    /\ nwrites' = 0
    /\ ResetSendUDP

SendMagic_writeHeader ==
    /\ pc = "sm_hdr"
    /\ payload' = writeHeader(payload)
    /\ pc' = "sm_mac"
    /\ UNCHANGED <<owner, args, nwrites, remoteIP, remotePort, conn, sent, suErr, ret>>

SendMagic_WriteMAC ==
    /\ pc = "sm_mac"
    /\ LET r == WriteMAC(payload, args.macAddr)
       IN  /\ payload' = r.payload
           /\ IF r.err # NilErr
              THEN /\ ret' = Wrap("write MAC address", r.err)
                   /\ pc' = "idle"
              ELSE /\ ret' = ret
                   /\ pc' = "su_addr"
    /\ UNCHANGED <<owner, args, nwrites, remoteIP, remotePort, conn, sent, suErr>>

(***************************************************************************)
(* Packet.SendUDP(ip, port), step by step                                  *)
(***************************************************************************)
\* SendUDP that validates the port before the address
SendUDP_getRAddr_PortFirst ==
    /\ pc = "su_addr"
    /\ LET r == getRAddr(args.ip)
           q == getPort(args.port)
       IN  IF q.err # NilErr
           THEN /\ suErr' = Wrap("parse port", q.err)
                /\ pc' = "su_ret"
                /\ UNCHANGED remoteIP
           ELSE IF r.err # NilErr
           THEN /\ suErr' = Wrap("parse remote IP", r.err)
                /\ pc' = "su_ret"
                /\ UNCHANGED remoteIP
           ELSE /\ remoteIP' = r.ip
                /\ pc' = "su_port"
                /\ UNCHANGED suErr
    /\ UNCHANGED <<owner, args, payload, nwrites, remotePort, conn, sent, ret>>

SendUDP_getRAddr ==
    /\ pc = "su_addr"
    /\ LET r == getRAddr(args.ip)
       IN  IF r.err # NilErr
           THEN /\ suErr' = Wrap("parse remote IP", r.err)
                /\ pc' = "su_ret"
                /\ UNCHANGED remoteIP
           ELSE /\ remoteIP' = r.ip
                /\ pc' = "su_port"
                /\ UNCHANGED suErr
    /\ UNCHANGED <<owner, args, payload, nwrites, remotePort, conn, sent, ret>>

\* SendUDP that reports a bad port, selects the default and goes on
SendUDP_getPort_Substitute ==
    /\ pc = "su_port"
    /\ LET r == getPort(args.port)
       IN  remotePort' = IF r.err # NilErr THEN defaultPort ELSE r.port
    /\ pc' = "su_dial"
    /\ UNCHANGED <<owner, args, payload, nwrites, remoteIP, conn, sent, suErr, ret>>

SendUDP_getPort ==
    /\ pc = "su_port"
    /\ LET r == getPort(args.port)
       IN  IF r.err # NilErr
           THEN /\ suErr' = Wrap("parse port", r.err)
                /\ pc' = "su_ret"
                /\ UNCHANGED remotePort
           ELSE /\ remotePort' = r.port
                /\ pc' = "su_dial"
                /\ UNCHANGED suErr
    /\ UNCHANGED <<owner, args, payload, nwrites, remoteIP, conn, sent, ret>>

\* net.DialUDP: the operating system may refuse the socket
SendUDP_Dial ==
    /\ pc = "su_dial"
    /\ \E ok \in BOOLEAN :
          IF ok /\ DialPossible(remoteIP)
          THEN /\ conn' = "open"
               /\ pc' = "su_write"
               /\ UNCHANGED suErr
          ELSE /\ suErr' = Wrap("dial UDP", Err("dial", <<>>))
               /\ pc' = "su_ret"
               /\ UNCHANGED conn
    /\ UNCHANGED <<owner, args, payload, nwrites, remoteIP, remotePort, sent, ret>>

\* conn.Write(p.payload.Bytes()): one datagram with the whole payload, or an error
SendUDP_Write ==
    /\ pc = "su_write"
    /\ \E ok \in BOOLEAN :
          IF ok
          THEN /\ sent' = Append(sent, [ip |-> To4(remoteIP), port |-> remotePort,
                                        data |-> payload])
               /\ UNCHANGED suErr
          ELSE /\ suErr' = Wrap("write UDP packet", Err("write", <<>>))
               /\ UNCHANGED sent
    /\ pc' = "su_ret"
    /\ UNCHANGED <<owner, args, payload, nwrites, remoteIP, remotePort, conn, ret>>

\* SendUDP whose result is dropped: the caller always sees nil
SendUDP_Return_Swallow ==
    /\ pc = "su_ret"
    /\ conn' = IF conn = "open" THEN "closed" ELSE conn
    /\ ret' = NilErr
    /\ pc' = "idle"
    /\ UNCHANGED <<owner, args, payload, nwrites, remoteIP, remotePort, sent, suErr>>

\* SendUDP without the deferred conn.Close()
SendUDP_Return_NoClose ==
    /\ pc = "su_ret"
    /\ ret' = IF suErr = NilErr THEN NilErr
              ELSE IF owner = "SendMagic" THEN Wrap("send UDP", suErr)
              ELSE suErr
    /\ pc' = "idle"
    /\ UNCHANGED <<owner, args, payload, nwrites, remoteIP, remotePort, conn, sent, suErr>>

\* return of SendUDP: the deferred conn.Close() runs, and SendMagic wraps the error
SendUDP_Return ==
    /\ pc = "su_ret"
    /\ conn' = IF conn = "open" THEN "closed" ELSE conn
    /\ ret' = IF suErr = NilErr THEN NilErr
              ELSE IF owner = "SendMagic" THEN Wrap("send UDP", suErr)
              ELSE suErr
    /\ pc' = "idle"
    /\ UNCHANGED <<owner, args, payload, nwrites, remoteIP, remotePort, sent, suErr>>

(***************************************************************************)
(* Manual construction: a caller's own Packet, WriteMAC and SendUDP        *)
(***************************************************************************)
User_NewPacket ==
    /\ pc = "idle"
    /\ owner' = "user"
    /\ payload' = <<>>
    /\ nwrites' = 0
    /\ args' = NoArgs
    /\ ret' = Pending
    /\ pc' = "idle"
    /\ ResetSendUDP

User_WriteMAC ==
    /\ pc = "idle"
    /\ owner = "user"
    /\ nwrites < MaxWrites
    /\ \E m \in MACInputs :
          LET r == WriteMAC(payload, m)
          IN  /\ payload' = r.payload
              /\ ret' = r.err
              /\ args' = [NoArgs EXCEPT !.macAddr = m]
    /\ nwrites' = nwrites + 1
    /\ pc' = "idle"
    /\ owner' = owner
    /\ ResetSendUDP

User_SendUDP ==
    /\ pc = "idle"
    /\ owner = "user"
    /\ \E ip \in IPInputs, pt \in PortInputs :
          args' = [NoArgs EXCEPT !.ip = ip, !.port = pt]
    /\ ret' = Pending
    /\ pc' = "su_addr"
    /\ UNCHANGED <<owner, payload, nwrites>>
    /\ ResetSendUDP

Next ==
    \/ SendMagic_Call
    \/ SendMagic_writeHeader
    \/ SendMagic_WriteMAC
    \/ SendUDP_getRAddr
    \/ SendUDP_getPort
    \/ SendUDP_Dial
    \/ SendUDP_Write
    \/ SendUDP_Return
    \/ User_NewPacket
    \/ User_WriteMAC
    \/ User_SendUDP

Spec == Init /\ [][Next]_vars

(***************************************************************************)
(* Specifications that apply one function to a larger set of texts.  Each  *)
(* starts where SendMagic(macAddr, "", ip, port) stands just before the    *)
(* function is called, and takes the steps that call it.                   *)
(***************************************************************************)
RECURSIVE Join(_, _)
\* the texts of the sequence parts, with sep between them
Join(parts, sep) ==
    IF Len(parts) = 0 THEN <<>>
    ELSE IF Len(parts) = 1 THEN parts[1]
    ELSE parts[1] \o sep \o Join(Tail(parts), sep)

\* --- MAC texts ---
OctetCycle ==
    << Chars("01"), Chars("23"), Chars("45"), Chars("67"),
       Chars("89"), Chars("ab"), Chars("CD"), Chars("eF") >>
OctetPatterns ==
    { [i \in 1..20 |-> Chars("00")], [i \in 1..20 |-> Chars("ff")],
      [i \in 1..20 |-> Chars("FF")], [i \in 1..20 |-> OctetCycle[((i - 1) % 8) + 1]] }
OctetCounts == {5, 6, 7, 8, 20}
SepTexts == { Chars(":"), Chars("-"), Chars("") }
SeparatedMACs ==
    { Join(SubSeq(pat, 1, n), sep) : pat \in OctetPatterns, n \in OctetCounts, sep \in SepTexts }
DottedMACs ==
    { Join([g \in 1..(n \div 2) |-> pat[2 * g - 1] \o pat[2 * g]], Chars(".")) :
        pat \in OctetPatterns, n \in {4, 6, 8, 20} }
MutationBases == { Chars("01:23:45:67:89:ab"), Chars("AA-BB-CC-DD-EE-FF") }
MutationChars == { "g", ":", "-", ".", "0", "F", " " }
MutatedMACs ==
    { [b EXCEPT ![i] = c] : b \in MutationBases, i \in 1..17, c \in MutationChars }
    \cup { SubSeq(b, 1, i - 1) \o SubSeq(b, i + 1, Len(b)) : b \in MutationBases, i \in 1..17 }
    \cup { b \o <<c>> : b \in MutationBases, c \in MutationChars }
MacStrings == SeparatedMACs \cup DottedMACs \cup MutatedMACs \cup MACInputs

InitMAC ==
    /\ pc = "sm_hdr"
    /\ owner = "SendMagic"
    /\ \E m \in MacStrings : args = [NoArgs EXCEPT !.macAddr = m]
    /\ payload = <<>>
    /\ nwrites = 0
    /\ remoteIP = <<>>
    /\ remotePort = 0
    /\ conn = "none"
    /\ sent = <<>>
    /\ suErr = NilErr
    /\ ret = Pending

NextMAC == SendMagic_writeHeader \/ SendMagic_WriteMAC

SpecMAC == InitMAC /\ [][NextMAC]_vars

\* --- address texts ---
MaxFields == 4
AddrFields ==
    { Chars("0"), Chars("9"), Chars("10"), Chars("255"), Chars("256"),
      Chars("01"), Chars(""), Chars("x") }
DottedTexts ==
    UNION { { Join(f, Chars(".")) : f \in [1..n -> AddrFields] } : n \in 1..MaxFields }
OtherAddrTexts ==
    { Chars("192.168.1.100"), Chars("192.168.0.255"), Chars("10.0.0.255"),
      Chars("123.456.789.101"), Chars("256.256.256.256"), Chars("invalid.ip.address"),
      Chars("192.168.1.255 "), Chars("192.168.1.255:9"), Chars("localhost"),
      Chars("::"), Chars("::1"), Chars("fe80::1"), Chars("2001:db8::1"),
      Chars("::ffff:192.168.1.255"), Chars("::ffff:c0a8:1ff"),
      Chars("0:0:0:0:0:ffff:10.0.0.255"), Chars("1:2:3:4:5:6:7:8"),
      Chars("1:2:3:4:5:6:7"), Chars("1::2::3"), Chars("fe80::1%eth0"),
      Chars("::ffff:999.1.1.1"), Chars("12345::1"), Chars(":") }
AddrStrings == DottedTexts \cup OtherAddrTexts \cup IPInputs

SampleMAC == Chars("00:11:22:33:44:55")
SamplePacket == WriteMAC(writeHeader(<<>>), SampleMAC).payload

InitAddr ==
    /\ pc = "su_addr"
    /\ owner = "SendMagic"
    /\ \E ip \in AddrStrings : args = [NoArgs EXCEPT !.macAddr = SampleMAC, !.ip = ip]
    /\ payload = SamplePacket
    /\ nwrites = 0
    /\ remoteIP = <<>>
    /\ remotePort = 0
    /\ conn = "none"
    /\ sent = <<>>
    /\ suErr = NilErr
    /\ ret = Pending

NextAddr == SendUDP_getRAddr

SpecAddr == InitAddr /\ [][NextAddr]_vars

\* --- port texts ---
MaxPortLen == 3
PortAlphabet == { "0", "7", "9", "8", "+", "-", "x" }
PortStrings == UNION { [1..n -> PortAlphabet] : n \in 0..MaxPortLen }

InitPort ==
    /\ pc = "su_port"
    /\ owner = "SendMagic"
    /\ \E pt \in PortStrings : args = [NoArgs EXCEPT !.macAddr = SampleMAC, !.port = pt]
    /\ payload = SamplePacket
    /\ nwrites = 0
    /\ remoteIP = IPv4(255, 255, 255, 255)
    /\ remotePort = 0
    /\ conn = "none"
    /\ sent = <<>>
    /\ suErr = NilErr
    /\ ret = Pending

NextPort == SendUDP_getPort

SpecPort == InitPort /\ [][NextPort]_vars

(***************************************************************************)
(* Concurrent callers of SendMagic.  In this specification every variable  *)
(* holds one value per caller (the locals of that caller's invocation), and *)
(* payload one value per Packet allocated.  The package has no             *)
(* package-level variable; an invocation reaches its Packet and its socket *)
(* only through its own locals pk and conn.                                *)
(***************************************************************************)
NumCallers == 2
Callers == 1..NumCallers

ConcCalls ==
    { [macAddr |-> Chars("00:11:22:33:44:55"), passwd |-> <<>>, ip |-> <<>>, port |-> <<>>],
      [macAddr |-> Chars("AA-BB-CC-DD-EE-FF"), passwd |-> <<>>,
       ip |-> Chars("192.168.1.255"), port |-> Chars("7")],
      [macAddr |-> Chars("bad-mac"), passwd |-> <<>>, ip |-> <<>>, port |-> <<>>],
      [macAddr |-> Chars("00:11:22:33:44:55"), passwd |-> Chars("secret"),
       ip |-> <<>>, port |-> <<>>],
      [macAddr |-> Chars("AA-BB-CC-DD-EE-FF"), passwd |-> <<>>,
       ip |-> Chars("999.1.1.1"), port |-> Chars("9")],
      [macAddr |-> Chars("00:11:22:33:44:55"), passwd |-> <<>>,
       ip |-> Chars("192.168.1.255"), port |-> Chars("80")] }

\* one Packet for the whole package instead of one per invocation
PacketOf_Shared(c) == 1

\* pk := new(Packet): the Packet caller c's invocation works on is its own
PacketOf(c) == c

InitConc ==
    /\ pc = [c \in Callers |-> "idle"]
    /\ owner = [c \in Callers |-> "none"]
    /\ args = [c \in Callers |-> NoArgs]
    /\ payload = [k \in Callers |-> <<>>]
    /\ nwrites = 0
    /\ remoteIP = [c \in Callers |-> <<>>]
    /\ remotePort = [c \in Callers |-> 0]
    /\ conn = [c \in Callers |-> "none"]
    /\ sent = [c \in Callers |-> <<>>]
    /\ suErr = [c \in Callers |-> NilErr]
    /\ ret = [c \in Callers |-> Pending]

Conc_Call(c) ==
    /\ pc[c] = "idle"
    /\ \E a \in ConcCalls :
          /\ args' = [args EXCEPT ![c] = a]
          /\ IF a.passwd = <<>>
             THEN /\ pc' = [pc EXCEPT ![c] = "sm_hdr"]
                  /\ ret' = [ret EXCEPT ![c] = Pending]
             ELSE /\ pc' = pc
                  /\ ret' = [ret EXCEPT ![c] =
                                Err("password-protected Wake-on-LAN not supported yet", <<>>)]
    /\ owner' = [owner EXCEPT ![c] = "SendMagic"]
    /\ payload' = [payload EXCEPT ![PacketOf(c)] = <<>>]
    /\ remoteIP' = [remoteIP EXCEPT ![c] = <<>>]
    /\ remotePort' = [remotePort EXCEPT ![c] = 0]
    /\ conn' = [conn EXCEPT ![c] = "none"]
    /\ sent' = [sent EXCEPT ![c] = <<>>]
    /\ suErr' = [suErr EXCEPT ![c] = NilErr]
    /\ UNCHANGED nwrites

Conc_writeHeader(c) ==
    /\ pc[c] = "sm_hdr"
    /\ payload' = [payload EXCEPT ![PacketOf(c)] = writeHeader(@)]
    /\ pc' = [pc EXCEPT ![c] = "sm_mac"]
    /\ UNCHANGED <<owner, args, nwrites, remoteIP, remotePort, conn, sent, suErr, ret>>

Conc_WriteMAC(c) ==
    /\ pc[c] = "sm_mac"
    /\ LET r == WriteMAC(payload[PacketOf(c)], args[c].macAddr)
       IN  /\ payload' = [payload EXCEPT ![PacketOf(c)] = r.payload]
           /\ IF r.err # NilErr
              THEN /\ ret' = [ret EXCEPT ![c] = Wrap("write MAC address", r.err)]
                   /\ pc' = [pc EXCEPT ![c] = "idle"]
              ELSE /\ ret' = ret
                   /\ pc' = [pc EXCEPT ![c] = "su_addr"]
    /\ UNCHANGED <<owner, args, nwrites, remoteIP, remotePort, conn, sent, suErr>>

Conc_getRAddr(c) ==
    /\ pc[c] = "su_addr"
    /\ LET r == getRAddr(args[c].ip)
       IN  IF r.err # NilErr
           THEN /\ suErr' = [suErr EXCEPT ![c] = Wrap("parse remote IP", r.err)]
                /\ pc' = [pc EXCEPT ![c] = "su_ret"]
                /\ UNCHANGED remoteIP
           ELSE /\ remoteIP' = [remoteIP EXCEPT ![c] = r.ip]
                /\ pc' = [pc EXCEPT ![c] = "su_port"]
                /\ UNCHANGED suErr
    /\ UNCHANGED <<owner, args, payload, nwrites, remotePort, conn, sent, ret>>

Conc_getPort(c) ==
    /\ pc[c] = "su_port"
    /\ LET r == getPort(args[c].port)
       IN  IF r.err # NilErr
           THEN /\ suErr' = [suErr EXCEPT ![c] = Wrap("parse port", r.err)]
                /\ pc' = [pc EXCEPT ![c] = "su_ret"]
                /\ UNCHANGED remotePort
           ELSE /\ remotePort' = [remotePort EXCEPT ![c] = r.port]
                /\ pc' = [pc EXCEPT ![c] = "su_dial"]
                /\ UNCHANGED suErr
    /\ UNCHANGED <<owner, args, payload, nwrites, remoteIP, conn, sent, ret>>

Conc_Dial(c) ==
    /\ pc[c] = "su_dial"
    /\ \E ok \in BOOLEAN :
          IF ok /\ DialPossible(remoteIP[c])
          THEN /\ conn' = [conn EXCEPT ![c] = "open"]
               /\ pc' = [pc EXCEPT ![c] = "su_write"]
               /\ UNCHANGED suErr
          ELSE /\ suErr' = [suErr EXCEPT ![c] = Wrap("dial UDP", Err("dial", <<>>))]
               /\ pc' = [pc EXCEPT ![c] = "su_ret"]
               /\ UNCHANGED conn
    /\ UNCHANGED <<owner, args, payload, nwrites, remoteIP, remotePort, sent, ret>>

Conc_Write(c) ==
    /\ pc[c] = "su_write"
    /\ \E ok \in BOOLEAN :
          IF ok
          THEN /\ sent' = [sent EXCEPT ![c] =
                              Append(@, [ip |-> To4(remoteIP[c]), port |-> remotePort[c],
                                         data |-> payload[PacketOf(c)]])]
               /\ UNCHANGED suErr
          ELSE /\ suErr' = [suErr EXCEPT ![c] = Wrap("write UDP packet", Err("write", <<>>))]
               /\ UNCHANGED sent
    /\ pc' = [pc EXCEPT ![c] = "su_ret"]
    /\ UNCHANGED <<owner, args, payload, nwrites, remoteIP, remotePort, conn, ret>>

Conc_Return(c) ==
    /\ pc[c] = "su_ret"
    /\ conn' = [conn EXCEPT ![c] = IF @ = "open" THEN "closed" ELSE @]
    /\ ret' = [ret EXCEPT ![c] = IF suErr[c] = NilErr THEN NilErr
                                 ELSE Wrap("send UDP", suErr[c])]
    /\ pc' = [pc EXCEPT ![c] = "idle"]
    /\ UNCHANGED <<owner, args, payload, nwrites, remoteIP, remotePort, sent, suErr>>

NextConc ==
    \E c \in Callers :
        \/ Conc_Call(c)
        \/ Conc_writeHeader(c)
        \/ Conc_WriteMAC(c)
        \/ Conc_getRAddr(c)
        \/ Conc_getPort(c)
        \/ Conc_Dial(c)
        \/ Conc_Write(c)
        \/ Conc_Return(c)

SpecConc == InitConc /\ [][NextConc]_vars

\* what one SendMagic(a) returns and writes when it runs alone, given whether the
\* operating system lets the dial and the write succeed
SendMagicAlone(a, dialOk, writeOk) ==
    IF a.passwd # <<>>
    THEN [ret |-> Err("password-protected Wake-on-LAN not supported yet", <<>>), sent |-> <<>>]
    ELSE LET w == WriteMAC(writeHeader(<<>>), a.macAddr)
             r == getRAddr(a.ip)
             q == getPort(a.port)
         IN  IF w.err # NilErr
             THEN [ret |-> Wrap("write MAC address", w.err), sent |-> <<>>]
             ELSE IF r.err # NilErr
             THEN [ret |-> Wrap("send UDP", Wrap("parse remote IP", r.err)), sent |-> <<>>]
             ELSE IF q.err # NilErr
             THEN [ret |-> Wrap("send UDP", Wrap("parse port", q.err)), sent |-> <<>>]
             ELSE IF ~(dialOk /\ DialPossible(r.ip))
             THEN [ret |-> Wrap("send UDP", Wrap("dial UDP", Err("dial", <<>>))), sent |-> <<>>]
             ELSE IF ~writeOk
             THEN [ret |-> Wrap("send UDP", Wrap("write UDP packet", Err("write", <<>>))),
                   sent |-> <<>>]
             ELSE [ret |-> NilErr,
                   sent |-> <<[ip |-> To4(r.ip), port |-> q.port, data |-> w.payload]>>]

(***************************************************************************)
(* Notions the properties are stated with, defined apart from the parsers. *)
(***************************************************************************)
\* a 6-octet MAC text: two hexadecimal digits per octet, one delimiter (':' or '-') throughout
IsEUI48Text(s) ==
    /\ Len(s) = 17
    /\ s[3] \in {":", "-"}
    /\ \A i \in 1..17 : IF i % 3 = 0 THEN s[i] = s[3] ELSE IsHex(s[i])
\* the six bytes such a text denotes
DecodedMAC(s) == [k \in 1..6 |-> 16 * HexVal(s[3 * k - 2]) + HexVal(s[3 * k - 1])]

\* the magic packet layout: 6 bytes of 0xFF, then one 6-byte address sixteen times
IsMagicPacket(d) ==
    /\ Len(d) = 102
    /\ \A i \in 1..6 : d[i] = 255
    /\ \A k \in 1..15 : \A j \in 1..6 : d[6 + 6 * k + j] = d[6 + j]

RECURSIVE DecimalValue(_)
\* the number a text of decimal digits denotes
DecimalValue(d) ==
    IF Len(d) = 0 THEN 0
    ELSE DecimalValue(SubSeq(d, 1, Len(d) - 1)) * 10 + DigitVal(d[Len(d)])
UnsignedPart(s) == IF Len(s) > 0 /\ s[1] \in {"+", "-"} THEN Tail(s) ELSE s
\* an optional sign and at least one decimal digit
IsIntText(s) ==
    /\ Len(UnsignedPart(s)) >= 1
    /\ \A i \in 1..Len(UnsignedPart(s)) : IsDigit(UnsignedPart(s)[i])
IntTextValue(s) ==
    IF s[1] = "-" THEN 0 - DecimalValue(UnsignedPart(s)) ELSE DecimalValue(UnsignedPart(s))

RECURSIVE SplitDots(_)
SplitDots(s) ==
    LET i == IndexByte(s, ".")
    IN  IF i = -1 THEN <<s>> ELSE <<SubSeq(s, 1, i)>> \o SplitDots(Drop(s, i + 1))
\* an octet in decimal: 0..255, no leading zero
IsOctetText(f) ==
    /\ Len(f) \in 1..3
    /\ \A i \in 1..Len(f) : IsDigit(f[i])
    /\ Len(f) > 1 => f[1] # "0"
    /\ DecimalValue(f) <= 255
\* strict dotted-quad IPv4 notation
IsDottedQuad(s) ==
    /\ Len(SplitDots(s)) = 4
    /\ \A i \in 1..4 : IsOctetText(SplitDots(s)[i])

\* decimal text of a byte (ubtoa), and IP.String of an address in 4-byte form
ubtoa(v) ==
    IF v < 10 THEN <<Digits[v + 1]>>
    ELSE IF v < 100 THEN <<Digits[(v \div 10) + 1], Digits[(v % 10) + 1]>>
    ELSE <<Digits[(v \div 100) + 1], Digits[((v \div 10) % 10) + 1], Digits[(v % 10) + 1]>>
String4(p4) == Join([i \in 1..4 |-> ubtoa(p4[i])], Chars("."))

BroadcastText == Chars("255.255.255.255")
ValidationKinds == {"invalid MAC address", "invalid remote address", "invalid port", "port not supported"}
\* WriteMAC has run in the SendMagic call in progress
MACStepDone == owner = "SendMagic" /\ args.passwd = <<>> /\ pc \notin {"sm_hdr", "sm_mac"}
\* the SendMagic call has returned
SendMagicReturned == owner = "SendMagic" /\ pc = "idle"

(***************************************************************************)
(* C1: for every valid 6-octet MAC text in colon or hyphen notation,       *)
(* writeHeader followed by WriteMAC on an empty Packet returns no error    *)
(* and leaves exactly 102 bytes: six 0xFF, then the decoded address in     *)
(* each of the sixteen 6-byte blocks.                                      *)
(***************************************************************************)
C1_ValidMACGivesMagicPacket ==
    (MACStepDone /\ IsEUI48Text(args.macAddr)) =>
        /\ ret = Pending
        /\ pc = "su_addr"
        /\ Len(payload) = 102
        /\ \A i \in 1..6 : payload[i] = 255
        /\ \A k \in 0..15 : \A j \in 1..6 :
              payload[6 + 6 * k + j] = DecodedMAC(args.macAddr)[j]

C1_Witness ==
    /\ MACStepDone
    /\ args.macAddr = Chars("ff:ff:ff:ff:ff:ff")
    /\ Len(payload) = 102

(***************************************************************************)
(* C2: whatever SendUDP hands to the socket is a magic packet (102 bytes:  *)
(* six 0xFF and one 6-byte address sixteen times), in SendMagic and on a   *)
(* caller's Packet populated with WriteMAC before SendUDP.                 *)
(***************************************************************************)
C2_SocketGetsMagicPacket ==
    (owner = "SendMagic" \/ (owner = "user" /\ Len(payload) > 0)) =>
        /\ pc = "su_write" => IsMagicPacket(payload)
        /\ \A i \in 1..Len(sent) : IsMagicPacket(sent[i].data)

(***************************************************************************)
(* C3: WriteMAC accepts only 6-octet colon- or hyphen-delimited hex-pair   *)
(* texts; for every other text it returns the invalid-MAC error carrying   *)
(* the text.                                                               *)
(***************************************************************************)
C3_OnlyEUI48Accepted ==
    (MACStepDone /\ ~IsEUI48Text(args.macAddr)) =>
        /\ ret.kind = "invalid MAC address"
        /\ ret.input = args.macAddr

(***************************************************************************)
(* C4: SendMagic with a non-empty passwd returns the unsupported-feature   *)
(* error and does no network I/O: nothing is resolved, no socket is        *)
(* opened, no datagram is written.                                         *)
(***************************************************************************)
C4_PasswordRefusedWithoutIO ==
    (owner = "SendMagic" /\ args.passwd # <<>>) =>
        /\ pc = "idle"
        /\ ret.kind = "password-protected Wake-on-LAN not supported yet"
        /\ remoteIP = <<>>
        /\ conn = "none"
        /\ sent = <<>>

C4_Witness ==
    /\ SendMagicReturned
    /\ args.passwd # <<>>
    /\ args.macAddr = Chars("bad-mac")
    /\ args.ip = Chars("999.1.1.1")
    /\ args.port = Chars("80")
    /\ ret.kind = "password-protected Wake-on-LAN not supported yet"

(***************************************************************************)
(* C5: in SendMagic a socket is opened and a datagram written only after   *)
(* the header is written, the MAC encoded and both the address and the     *)
(* port resolved without error; a validation failure ends the call with    *)
(* nothing transmitted, and no default stands in for an invalid non-empty  *)
(* address or port.                                                        *)
(***************************************************************************)
C5_TransmitOnlyAfterValidation ==
    owner = "SendMagic" =>
        /\ (pc = "su_write" \/ conn # "none" \/ sent # <<>>) =>
              /\ SubSeq(payload, 1, 6) = <<255, 255, 255, 255, 255, 255>>
              /\ ParseMAC(args.macAddr).ok
              /\ payload = SubSeq(payload, 1, 6) \o Repeat(ParseMAC(args.macAddr).hw, 16)
              /\ args.ip # <<>> => (ParseIP(args.ip).ok /\ remoteIP = ParseIP(args.ip).ip)
              /\ args.port # <<>> =>
                    (IsIntText(args.port) /\ remotePort = IntTextValue(args.port))
              /\ remotePort \in acceptedPorts
        /\ (pc = "idle" /\ ret.kind \in ValidationKinds) => (conn = "none" /\ sent = <<>>)
        /\ (suErr.kind \in ValidationKinds) => (conn = "none" /\ sent = <<>>)

C5_Witness ==
    /\ SendMagicReturned
    /\ IsEUI48Text(args.macAddr)
    /\ args.ip = BroadcastText
    /\ ret.kind = "port not supported"
    /\ ret.wraps = <<"send UDP", "parse port">>
    /\ conn = "none"
    /\ sent = <<>>

(***************************************************************************)
(* C6: getRAddr returns the invalid-address error for every non-empty text *)
(* that is not a strict dotted-quad IPv4 address (malformed octets,        *)
(* hostnames, IPv6 literals).                                              *)
(***************************************************************************)
C6_OnlyDottedQuadAccepted ==
    (pc # "su_addr" /\ args.ip # <<>> /\ ~IsDottedQuad(args.ip)) =>
        /\ suErr.kind = "invalid remote address"
        /\ pc = "su_ret"

(***************************************************************************)
(* C7: getRAddr("") is 255.255.255.255 without error, and for every valid  *)
(* dotted-quad text getRAddr returns, without error, the address whose     *)
(* textual form is that text.                                              *)
(***************************************************************************)
C7_AddressRoundTrip ==
    pc # "su_addr" =>
        /\ args.ip = <<>> =>
              /\ suErr = NilErr
              /\ Len(To4(remoteIP)) = 4
              /\ String4(To4(remoteIP)) = BroadcastText
        /\ IsDottedQuad(args.ip) =>
              /\ suErr = NilErr
              /\ Len(To4(remoteIP)) = 4
              /\ String4(To4(remoteIP)) = args.ip

C7_Witness ==
    /\ pc = "su_port"
    /\ args.ip = Chars("10.0.255.9")
    /\ To4(remoteIP) = <<10, 0, 255, 9>>

(***************************************************************************)
(* C8: getPort returns 9 for the empty text; a non-empty text succeeds     *)
(* only when it reads as an integer equal to 0, 7 or 9, and then that      *)
(* integer is returned; everything else is an invalid-port error.  So      *)
(* every port returned without error is 0, 7 or 9.                         *)
(***************************************************************************)
C8_PortResolution ==
    pc # "su_port" =>
        LET p == args.port
            good == p = <<>> \/ (IsIntText(p) /\ IntTextValue(p) \in {0, 7, 9})
        IN  /\ p = <<>> => (suErr = NilErr /\ remotePort = 9)
            /\ (p # <<>> /\ good) => (suErr = NilErr /\ remotePort = IntTextValue(p))
            /\ ~good => (suErr.kind \in {"invalid port", "port not supported"} /\ pc = "su_ret")
            /\ suErr = NilErr => (remotePort \in {0, 7, 9} /\ pc = "su_dial")

C8_Witness ==
    /\ pc = "su_dial"
    /\ args.port = Chars("+07")
    /\ remotePort = 7

(***************************************************************************)
(* C9: SendMagic(macAddr, "", "", "") and SendMagic(macAddr, "",           *)
(* "255.255.255.255", "9") are equivalent: in both (and with either        *)
(* argument left empty) the destination resolves to 255.255.255.255 port   *)
(* 9, the datagram is the payload built from macAddr sent there, and the   *)
(* call fails only for an invalid macAddr or a failing socket.             *)
(***************************************************************************)
C9_DefaultsEqualExplicit ==
    (owner = "SendMagic" /\ args.passwd = <<>>
        /\ args.ip \in {<<>>, BroadcastText} /\ args.port \in {<<>>, Chars("9")}) =>
        /\ suErr.kind \notin ValidationKinds
        /\ (pc \in {"su_port", "su_dial", "su_write", "su_ret"}) =>
              remoteIP = <<0, 0, 0, 0, 0, 0, 0, 0, 0, 0, 255, 255, 255, 255, 255, 255>>
        /\ (pc \in {"su_dial", "su_write", "su_ret"}) => remotePort = 9
        /\ \A i \in 1..Len(sent) :
              sent[i] = [ip |-> <<255, 255, 255, 255>>, port |-> 9,
                         data |-> WriteMAC(writeHeader(<<>>), args.macAddr).payload]
        /\ (pc = "idle" /\ ret # NilErr) =>
              \/ ret.kind = "invalid MAC address" /\ ~ParseMAC(args.macAddr).ok
              \/ ret.kind \in {"dial", "write"} /\ ParseMAC(args.macAddr).ok

C9_Witness ==
    /\ SendMagicReturned
    /\ args.ip = <<>>
    /\ args.port = <<>>
    /\ args.passwd = <<>>
    /\ Len(sent) = 1
    /\ sent[1].ip = <<255, 255, 255, 255>>
    /\ sent[1].port = 9
    /\ ret = NilErr

(***************************************************************************)
(* C10: SendMagic returns nil exactly when one datagram carrying the whole *)
(* payload was written during the call; every failure reaches the caller   *)
(* as a non-nil error naming its cause; each call starts from a fresh      *)
(* Packet and writes at most one datagram.                                 *)
(***************************************************************************)
C10_NilIffOneDatagram ==
    owner = "SendMagic" =>
        /\ Len(sent) <= 1
        /\ pc = "sm_hdr" => payload = <<>>
        /\ pc = "idle" =>
              /\ ret # Pending
              /\ ret = NilErr <=> (Len(sent) = 1 /\ sent[1].data = payload)
              /\ suErr # NilErr => (ret # NilErr /\ ret.kind = suErr.kind)

C10_Witness ==
    /\ SendMagicReturned
    /\ ret.kind = "write"
    /\ ret.wraps = <<"send UDP", "write UDP packet">>
    /\ conn = "closed"
    /\ sent = <<>>

(***************************************************************************)
(* C11: SendUDP releases its socket before returning on every exit path:   *)
(* once SendUDP has returned (after a write, a failed write, a failed dial *)
(* or a failed address or port validation) no socket it opened is open.    *)
(***************************************************************************)
C11_SocketReleasedOnReturn ==
    /\ pc = "idle" => conn \in {"none", "closed"}
    /\ conn = "open" => pc \in {"su_write", "su_ret"}
    /\ (pc = "idle" /\ suErr.kind \in ValidationKinds \cup {"dial"}) => conn = "none"
    /\ (pc = "idle" /\ (suErr.kind = "write" \/ sent # <<>>)) => conn = "closed"

C11_Witness ==
    /\ pc = "idle"
    /\ owner = "user"
    /\ suErr.kind = "write"
    /\ ret.wraps = <<"write UDP packet">>
    /\ conn = "closed"

(***************************************************************************)
(* C13: MAC texts written with no separator (twelve hexadecimal digits,    *)
(* lowercase or uppercase, such as aabbccddeeff) are accepted: WriteMAC    *)
(* succeeds for them as for the colon and dash forms.                      *)
(***************************************************************************)
IsBareHex12(s) == Len(s) = 12 /\ \A i \in 1..12 : IsHex(s[i])

C13_NoSeparatorAccepted ==
    (MACStepDone /\ IsBareHex12(args.macAddr)) =>
        /\ ret = Pending
        /\ Len(payload) = 102

(***************************************************************************)
(* C14: when WriteMAC returns an error it has appended nothing: the        *)
(* payload is byte for byte what it was before the call (the 6-byte header *)
(* alone when called after writeHeader).                                   *)
(***************************************************************************)
\* the step is a WriteMAC call, in SendMagic or on the caller's own Packet
WriteMACStep ==
    \/ pc = "sm_mac"
    \/ pc = "idle" /\ pc' = "idle" /\ owner = "user" /\ owner' = "user" /\ nwrites' = nwrites + 1

C14_FailedWriteMACAppendsNothing ==
    [][(WriteMACStep /\ ret'.kind = "invalid MAC address") =>
          /\ payload' = payload
          /\ ret'.input = args'.macAddr
          /\ pc = "sm_mac" => payload' = <<255, 255, 255, 255, 255, 255>>]_vars

C14_Witness ==
    /\ pc = "idle"
    /\ owner = "user"
    /\ nwrites = 2
    /\ ret.kind = "invalid MAC address"
    /\ args.macAddr = Chars("bad-mac")
    /\ Len(payload) = 96

(***************************************************************************)
(* C15: SendMagic checks its inputs in a fixed order and reports the first *)
(* failing stage only: the password before the MAC, the MAC before the     *)
(* address, the address before the port, the port before any socket is     *)
(* opened.                                                                 *)
(***************************************************************************)
C15_FirstFailingStageReported ==
    SendMagicReturned =>
        LET badMAC == ~ParseMAC(args.macAddr).ok
            badAddr == getRAddr(args.ip).err # NilErr
            badPort == getPort(args.port).err # NilErr
        IN  IF args.passwd # <<>>
            THEN ret.kind = "password-protected Wake-on-LAN not supported yet"
            ELSE IF badMAC
            THEN ret.kind = "invalid MAC address" /\ ret.wraps = <<"write MAC address">>
            ELSE IF badAddr
            THEN /\ ret.kind = "invalid remote address"
                 /\ ret.wraps = <<"send UDP", "parse remote IP">>
                 /\ conn = "none"
            ELSE IF badPort
            THEN /\ ret.kind \in {"invalid port", "port not supported"}
                 /\ ret.wraps = <<"send UDP", "parse port">>
                 /\ conn = "none"
            ELSE ret.kind \in {"nil", "dial", "write"}

C15_Witness ==
    /\ SendMagicReturned
    /\ args.passwd = <<>>
    /\ IsEUI48Text(args.macAddr)
    /\ args.ip = Chars("999.1.1.1")
    /\ args.port = Chars("80")
    /\ ret.kind = "invalid remote address"

(***************************************************************************)
(* C12: concurrent SendMagic calls are independent: under every            *)
(* interleaving each invocation transmits the payload built from its own   *)
(* macAddr to its own destination and returns what it would return when    *)
(* run alone.                                                              *)
(***************************************************************************)
C12_ConcurrentCallsIndependent ==
    \A c \in Callers :
        /\ \A i \in 1..Len(sent[c]) :
              sent[c][i] = [ip |-> To4(getRAddr(args[c].ip).ip),
                            port |-> getPort(args[c].port).port,
                            data |-> writeHeader(<<>>)
                                       \o Repeat(ParseMAC(args[c].macAddr).hw, 16)]
        /\ (pc[c] = "idle" /\ owner[c] = "SendMagic") =>
              \E d \in BOOLEAN, w \in BOOLEAN :
                  [ret |-> ret[c], sent |-> sent[c]] = SendMagicAlone(args[c], d, w)

C12_Witness ==
    /\ pc[1] = "su_ret"
    /\ Len(sent[1]) = 1
    /\ pc[2] = "su_write"
    /\ conn[2] = "open"
    /\ args[1].macAddr # args[2].macAddr
    /\ args[1].ip # args[2].ip

====
